---- MODULE Spec2Model ----
(***************************************************************************)
(* Axon front end: the ModelViewer3D component (scene session lifecycle,   *)
(* asset load callbacks, render loop, pin projection, pin placement and    *)
(* camera operations), modelled as a state machine.                        *)
(*                                                                         *)
(* One step of the machine is one JavaScript task: an effect run, a        *)
(* loader callback, an animation frame, an observer or DOM event handler,  *)
(* a button handler.  The browser is single threaded, so each handler runs *)
(* to completion and is one atomic action.                                 *)
(***************************************************************************)
EXTENDS Integers, Sequences, FiniteSets, TLC

(***************************************************************************)
(* Bounds of the model.                                                    *)
(***************************************************************************)
MaxSessions == 2   \* effect runs (scene sessions) of one mounted viewer
AzSteps == 2       \* azimuth quanta in one revolution of the orbit rig
MaxZoom == 1       \* net zoom steps followed in either direction
MaxCleanups == 2   \* invocations of one cleanup closure that are followed

Urls == {1, 2, 3}              \* asset URLs; 0 stands for "no fileUrl"
Models == {1, 2}               \* model ids; 0 stands for "no modelId"
Sizes == {<<800, 600>>, <<400, 300>>}   \* client sizes of the container
Sessions == 1..MaxSessions

VARIABLES
  phase,          \* "initial" (rendered, effects not yet run) | "mounted" | "crashed" | "unmounted"
  fileUrl,        \* prop fileUrl of the last committed render
  modelId,        \* prop modelId
  editMode,       \* prop editMode
  onPinPlaced,    \* prop onPinPlaced: TRUE when a callback is passed
  editModeRef,    \* editModeRef.current
  onPinPlacedRef, \* onPinPlacedRef.current
  cur,            \* the session sceneRef/cameraRef/controlsRef/rendererRef point to (0: null)
  nextSid,        \* the next effect run
  sess,           \* per effect run: the objects its closure holds
  animFrameRef,   \* animFrameRef.current
  frames,         \* animation frames requested and not yet run or cancelled
  isLoading, loadError, loadProgress,
  pins, notes,    \* useState pins / notes
  pinsRef,        \* pinsRef.current
  projected,      \* useState projected
  fetches,        \* pins+notes requests in flight, by model id
  size,           \* clientWidth, clientHeight of the container
  lastRun,        \* the handler that ran in the last step, with what it did
  probe,          \* a camera, pins and a rect handed to projectPins on their own
  hookPhase,      \* useCourseTree: "initial" | "mounted" | "unmounted"
  institutionId,  \* useCourseTree's argument; 0 stands for ''
  courses,        \* useState courses, as the sequence of their ids
  selectedCourse, \* useState selectedCourse; 0 stands for null
  coursesLoading, \* useState coursesLoading
  coursesReqs,    \* getCourses requests in flight, each with its effect run's cancelled flag
  tree,           \* useState tree
  treeLoading,    \* useState treeLoading
  builds,         \* per buildContentTree call: course, signal.aborted, awaits passed, outcome
  curBuild,       \* the call whose AbortController the last effect run's cleanup holds (0: none)
  nextBuild,      \* the next buildContentTree call
  quizPhase,      \* QuizView: useState phase
  questions,      \* QuizView: useState questions
  sessionId,      \* QuizView: useState sessionId; 0 stands for null
  selectedTopicName, \* QuizView: useState selectedTopicName; 0 stands for ''
  lastResults,    \* QuizView: useState lastResults
  loadingTopicId, \* QuizSelection: useState loadingTopicId; 0 stands for null
  starts,         \* per handleTopicClick / handleRestart call: how far it got
  nextStart,      \* the next such call
  studySessions,  \* the server's study sessions, by id
  currentIdx,     \* QuizSession: useState currentIdx
  answers,        \* QuizSession: useState answers
  selectedOption, \* QuizSession: useState selectedOption; "" stands for null
  textAnswer,     \* QuizSession: useState textAnswer
  submitted,      \* QuizSession: useState submitted
  attempts,       \* createQuizAttempt calls of the mounted QuizSession, per question index
  authPhase,      \* AuthProvider: "initial" | "mounted" | "unmounted"
  status,         \* AuthProvider: useState status
  user,           \* AuthProvider: useState user; 0 stands for null
  memberships,    \* AuthProvider: useState memberships
  activeMembership, \* AuthProvider: useState activeMembership; 0 stands for null
  accessToken,    \* AuthProvider: useState accessToken; 0 stands for null
  stored,         \* the auth data authApi keeps in localStorage
  authReqs        \* restoreSession / signIn / signUp / signOut calls in flight

vars == <<phase, fileUrl, modelId, editMode, onPinPlaced, editModeRef, onPinPlacedRef,
          cur, nextSid, sess, animFrameRef, frames, isLoading, loadError, loadProgress,
          pins, notes, pinsRef, projected, fetches, size, lastRun, probe,
          hookPhase, institutionId, courses, selectedCourse, coursesLoading, coursesReqs,
          tree, treeLoading, builds, curBuild, nextBuild,
          quizPhase, questions, sessionId, selectedTopicName, lastResults, loadingTopicId,
          starts, nextStart, studySessions,
          currentIdx, answers, selectedOption, textAnswer, submitted, attempts,
          authPhase, status, user, memberships, activeMembership, accessToken, stored,
          authReqs>>

courseVars == <<hookPhase, institutionId, courses, selectedCourse, coursesLoading>>
treeVars == <<coursesReqs, tree, treeLoading, builds, curBuild, nextBuild>>
hookVars == <<courseVars, treeVars>>
quizViewVars == <<quizPhase, questions, sessionId, selectedTopicName, lastResults,
                  loadingTopicId, starts, nextStart, studySessions>>
quizSessionVars == <<currentIdx, answers, selectedOption, textAnswer, submitted, attempts>>
quizVars == <<quizViewVars, quizSessionVars>>
authStateVars == <<status, user, memberships, activeMembership, accessToken>>
authVars == <<authPhase, authStateVars, stored, authReqs>>
propVars == <<fileUrl, modelId, editMode, onPinPlaced, editModeRef, onPinPlacedRef>>
loadVars == <<isLoading, loadError, loadProgress>>
pinVars == <<pins, notes, pinsRef, fetches>>
viewerVars == <<phase, fileUrl, modelId, editMode, onPinPlaced, editModeRef, onPinPlacedRef,
                cur, nextSid, sess, animFrameRef, frames, isLoading, loadError, loadProgress,
                pins, notes, pinsRef, projected, fetches, size, lastRun>>
sessVars == <<cur, nextSid, sess, animFrameRef, frames>>

(***************************************************************************)
(* Numbers.  A JavaScript number is kept as an exact fraction <<n, d>>     *)
(* with d >= 0; d = 0 stands for +Infinity (n > 0), -Infinity (n < 0) and  *)
(* NaN (n = 0), which is what the divisions of the code produce there.     *)
(***************************************************************************)
Abs(i) == IF i < 0 THEN -i ELSE i
Sign(i) == IF i < 0 THEN -1 ELSE IF i > 0 THEN 1 ELSE 0

RECURSIVE Gcd(_, _)
Gcd(a, b) == IF b = 0 THEN a ELSE Gcd(b, a % b)

Num(n, d) ==
  IF d = 0 THEN <<Sign(n), 0>>
  ELSE LET g == Gcd(Abs(n), Abs(d)) IN <<(Sign(d) * n) \div g, Abs(d) \div g>>

IsNaN(a) == a[1] = 0 /\ a[2] = 0
NumOf(i) == <<i, 1>>
Mul(a, b) == Num(a[1] * b[1], a[2] * b[2])
Add(a, b) ==
  IF a[2] = 0 /\ b[2] = 0 THEN (IF a[1] = b[1] THEN a ELSE <<0, 0>>)
  ELSE IF a[2] = 0 THEN a
  ELSE IF b[2] = 0 THEN b
  ELSE Num(a[1] * b[2] + b[1] * a[2], a[2] * b[2])
Neg(a) == <<-a[1], a[2]>>
\* 1 / a; 1 / 0 is +Infinity
Inv(a) ==
  IF IsNaN(a) THEN a
  ELSE IF a[1] = 0 THEN <<1, 0>>
  ELSE IF a[1] > 0 THEN <<a[2], a[1]>> ELSE <<-a[2], -a[1]>>
\* a < b as IEEE 754 compares: false when either side is NaN
Lt(a, b) ==
  /\ ~IsNaN(a)
  /\ ~IsNaN(b)
  /\ IF a[2] = 0 /\ b[2] = 0 THEN a[1] < b[1] ELSE a[1] * b[2] < b[1] * a[2]
Le(a, b) == ~IsNaN(a) /\ ~IsNaN(b) /\ ~Lt(b, a)

(***************************************************************************)
(* Scene graph.  A scene is the set of its top-level nodes; the loaded     *)
(* glTF scene is a Group with its meshes below it.                         *)
(***************************************************************************)
Lights == {"ambLight", "keyLight", "fillLight", "rimLight"}
Rig == Lights \cup {"gridHelper"}
FallbackMeshes == {"shaft", "prox", "dist1", "dist2", "cart"}
GltfMeshes == {"gltfMesh"}
AllMeshes == FallbackMeshes \cup GltfMeshes

Children(n) == IF n = "gltfScene" THEN GltfMeshes ELSE {}

\* scene.traverse: the node set visited, the scene's descendants
Traverse(scene) == scene \cup UNION {Children(n) : n \in scene}

\* obj instanceof THREE.Mesh (lights, the GridHelper and groups are not)
MeshesOf(scene) == Traverse(scene) \cap AllMeshes

MaterialOf(n) ==
  IF n \in {"shaft", "prox", "dist1", "dist2"} THEN "boneMat"
  ELSE IF n = "cart" THEN "cartMat" ELSE "gltfMat"

Resources ==
  {<<"controls", "">>, <<"renderer", "">>}
    \cup {<<"geometry", n>> : n \in AllMeshes}
    \cup {<<"material", m>> : m \in {"boneMat", "cartMat", "gltfMat"}}

\* buildFallbackModel(scene): five meshes added to the scene
buildFallbackModel(scene) == scene \cup FallbackMeshes

(***************************************************************************)
(* Camera and orbit controls.  A camera position is kept symbolically as   *)
(* the point reached from an anchor, position.set(...) of the source, by   *)
(* az azimuth quanta about the vertical axis through the target, zoom      *)
(* steps of 0.5 along the view direction and shift pan quanta.  The target *)
(* of the controls is the origin moved by a number of pan quanta.          *)
(***************************************************************************)
DefaultAnchor == <<NumOf(3), NumOf(2), NumOf(4)>>
Origin == 0
Null == "null"

DefaultPosition == [anchor |-> DefaultAnchor, az |-> 0, zoom |-> 0, shift |-> 0]

\* OrbitControls.update() with enableDamping and autoRotate, no gesture in
\* progress: the azimuth advances by the auto-rotation and by the pending
\* rotation, the target moves by the pending pan and the camera follows it.
update(s) ==
  LET c == s.controls
      p == s.camera.position
  IN [s EXCEPT
        !.camera.position = [p EXCEPT !.az = (p.az + 1 + c.sphericalDelta) % AzSteps,
                                      !.shift = c.target + c.panOffset],
        !.controls = [c EXCEPT !.target = c.target + c.panOffset,
                               !.sphericalDelta = 0,
                               !.panOffset = 0]]

NoSession ==
  [status |-> "none", url |-> 0, load |-> "none", scene |-> {},
   camera |-> [position |-> DefaultPosition, aspect |-> <<0, 0>>],
   controls |-> [target |-> Origin, sphericalDelta |-> 0, panOffset |-> 0],
   model |-> [scale |-> <<1, 1>>, position |-> <<0, 0, 0>>],
   observer |-> FALSE, listener |-> FALSE, attached |-> FALSE,
   disposed |-> [r \in Resources |-> 0], cleanups |-> 0]

\* A session that hands every fileUrl, also a missing one, to the loader
NewSessionAlwaysLoads(url, wh) ==
  [status |-> "alive", url |-> url,
   load |-> "pending",
   scene |-> Rig,
   camera |-> [position |-> DefaultPosition, aspect |-> wh],
   controls |-> [target |-> Origin, sphericalDelta |-> 0, panOffset |-> 0],
   model |-> [scale |-> <<1, 1>>, position |-> <<0, 0, 0>>],
   observer |-> TRUE, listener |-> TRUE, attached |-> TRUE,
   disposed |-> [r \in Resources |-> 0], cleanups |-> 0]

\* The build effect up to the load request: scene, camera, renderer, controls,
\* lights, grid, and the placeholder when there is no fileUrl.
NewSession(url, wh) ==
  [status |-> "alive", url |-> url,
   load |-> IF url # 0 THEN "pending" ELSE "none",
   scene |-> IF url # 0 THEN Rig ELSE buildFallbackModel(Rig),
   camera |-> [position |-> DefaultPosition, aspect |-> wh],
   controls |-> [target |-> Origin, sphericalDelta |-> 0, panOffset |-> 0],
   model |-> [scale |-> <<1, 1>>, position |-> <<0, 0, 0>>],
   observer |-> TRUE, listener |-> TRUE, attached |-> TRUE,
   disposed |-> [r \in Resources |-> 0], cleanups |-> 0]

(***************************************************************************)
(* Vector3.project(camera) for a PerspectiveCamera(45, aspect, 0.01, 200). *)
(* A view is the camera's world position and its orthonormal axes right,   *)
(* up and fwd (the direction it looks along); vectors are integer triples, *)
(* near and far are in hundredths.                                         *)
(***************************************************************************)
NearH == 1            \* near plane 0.01
FarH == 20000         \* far plane 200
TanHalfFov == <<414, 1000>>   \* tan(45 deg / 2) = 0.4142...

Dot(u, v) == u[1] * v[1] + u[2] * v[2] + u[3] * v[3]
Sub(u, v) == <<u[1] - v[1], u[2] - v[2], u[3] - v[3]>>

\* applyMatrix4(camera.matrixWorldInverse): camera-space coordinates; the
\* camera looks down its negative z axis
CameraSpace(view, v) ==
  LET q == Sub(v, view.position)
  IN <<Dot(q, view.right), Dot(q, view.up), -Dot(q, view.fwd)>>

\* applyMatrix4(camera.projectionMatrix): clip coordinates divided by w,
\* with x' = 1/(aspect*tan), y' = 1/tan, c = -(f+n)/(f-n), d = -2fn/(f-n)
project(v, camera) ==
  LET cs == CameraSpace(camera.view, v)
      aspect == Num(camera.aspect[1], camera.aspect[2])
      yScale == Inv(TanHalfFov)
      xScale == Mul(yScale, Inv(aspect))
      clipZ == Num(-(FarH + NearH) * cs[3] * 100 - 2 * FarH * NearH, (FarH - NearH) * 100)
      w == Inv(NumOf(-cs[3]))
  IN [x |-> Mul(Mul(xScale, NumOf(cs[1])), w),
      y |-> Mul(Mul(yScale, NumOf(cs[2])), w),
      z |-> Mul(clipZ, w)]

(***************************************************************************)
(* Pins and their projection.                                              *)
(***************************************************************************)
NoGeometry == <<>>

\* Projected2DPin with the depth test written <= 1
Projected2DPinLe(pin, vec, rect) ==
  [pin |-> pin,
   x |-> Mul(Add(Mul(vec.x, <<1, 2>>), <<1, 2>>), NumOf(rect[1])),
   y |-> Mul(Add(Mul(Neg(vec.y), <<1, 2>>), <<1, 2>>), NumOf(rect[2])),
   visible |-> Le(vec.z, NumOf(1))]

\* Projected2DPin with x taken from the device coordinate without the 0.5 offset
Projected2DPinNoOffset(pin, vec, rect) ==
  [pin |-> pin,
   x |-> Mul(Mul(vec.x, <<1, 2>>), NumOf(rect[1])),
   y |-> Mul(Add(Mul(Neg(vec.y), <<1, 2>>), <<1, 2>>), NumOf(rect[2])),
   visible |-> Lt(vec.z, NumOf(1))]

\* One Projected2DPin from the projected vector and the container's rect
Projected2DPin(pin, vec, rect) ==
  [pin |-> pin,
   x |-> Mul(Add(Mul(vec.x, <<1, 2>>), <<1, 2>>), NumOf(rect[1])),
   y |-> Mul(Add(Mul(Neg(vec.y), <<1, 2>>), <<1, 2>>), NumOf(rect[2])),
   visible |-> Lt(vec.z, NumOf(1))]

\* pin.geometry.x of a pin without geometry throws a TypeError
ProjectThrows(currentPins) ==
  \E i \in 1..Len(currentPins) : currentPins[i].geometry = NoGeometry

\* projectPins(): the list handed to setProjected, given the projected
\* vector vecs[i] of every pin.  haveRefs: cameraRef.current and
\* containerRef.current are both set.
projectPins(currentPins, haveRefs, vecs, rect) ==
  IF ~haveRefs \/ Len(currentPins) = 0 THEN <<>>
  ELSE [i \in 1..Len(currentPins) |-> Projected2DPin(currentPins[i], vecs[i], rect)]

(***************************************************************************)
(* The server's pins and notes.  A pin record without geometry is a        *)
(* malformed record.                                                       *)
(***************************************************************************)
Pin(i, m, g) == [id |-> i, model_id |-> m, geometry |-> g]
Note(i, m) == [id |-> i, model_id |-> m]

\* The responses the server may give for model m; has: the items field is there
Items(list) == [has |-> TRUE, items |-> list]
NoItems == [has |-> FALSE, items |-> <<>>]
PinResponses(m) ==
  IF m = 1 THEN {Items(<<Pin(1, 1, <<1, 0, 0>>), Pin(2, 1, <<0, 1, 0>>)>>), NoItems}
  ELSE {Items(<<Pin(3, 2, NoGeometry), Pin(4, 2, <<0, 0, 1>>)>>)}
NoteResponses(m) == {Items(<<Note(m, m)>>)}

\* res.items || []
OrEmpty(res) == IF res.has THEN res.items ELSE <<>>

\* The projected vectors the render loop may see: the camera pose is
\* symbolic in the lifecycle, so vec.project(camera) is any of these
\* (in the frustum; beyond the far plane or behind the camera)
NdcSamples ==
  {[x |-> <<0, 1>>, y |-> <<1, 2>>, z |-> <<1, 2>>],
   [x |-> <<3, 2>>, y |-> <<0, 1>>, z |-> <<3, 2>>]}

(***************************************************************************)
(* The effect cleanup of one session (the closure returned by the build    *)
(* effect).                                                                *)
(***************************************************************************)
\* The cleanup with the frame left requested
FramesKept(fs, ref) == fs

\* cancelAnimationFrame(animFrameRef.current)
FramesAfterCancel(fs, ref) == {f \in fs : f.id # ref}

\* scene.traverse(...): geometry.dispose() and material.dispose() of every mesh
DisposeMeshes(d, scene) ==
  [r \in Resources |->
     d[r] + Cardinality({n \in MeshesOf(scene) :
                           r = <<"geometry", n>> \/ r = <<"material", MaterialOf(n)>>})]

\* disconnect, removeEventListener, controls.dispose(), renderer.dispose(),
\* removeChild, then the traversal
cleanup(s) ==
  [s EXCEPT !.status = "torn",
            !.observer = FALSE,
            !.listener = FALSE,
            !.attached = FALSE,
            !.cleanups = @ + 1,
            !.disposed = DisposeMeshes([@ EXCEPT ![<<"controls", "">>] = @ + 1,
                                                 ![<<"renderer", "">>] = @ + 1],
                                       s.scene)]

\* requestAnimationFrame returns an id no pending frame has
NewFrameId(fs, ref) ==
  CHOOSE n \in 1..(Cardinality(fs) + 2) : n # ref /\ \A f \in fs : f.id # n

\* React drops a state update of a component that is not mounted
SetState(old, new) == IF phase = "mounted" \/ phase = "initial" THEN new ELSE old

(***************************************************************************)
(* The build effect: lines 120-263 of the viewer, run at mount and at      *)
(* every change of fileUrl, on the sessions and frames the previous        *)
(* cleanup left.  The effects of a commit run in source order and after    *)
(* those of every earlier commit, so the ref effect has stored the         *)
(* rendered pins.  animate() is called once inside the effect; when its    *)
(* projectPins() throws, the effect throws before the observer and the     *)
(* listener are installed and before it returns its cleanup, and React     *)
(* unmounts the component.                                                 *)
(***************************************************************************)
BuildEffect(url, ss, fs, kind) ==
  LET s == nextSid
      throws == ProjectThrows(pins)
      built == update(NewSession(url, size))
      fid == NewFrameId(fs, animFrameRef)
  IN /\ nextSid' = s + 1
     /\ cur' = s
     /\ sess' = [ss EXCEPT ![s] = IF throws
                                   THEN [built EXCEPT !.observer = FALSE, !.listener = FALSE]
                                   ELSE built]
     /\ frames' = fs \cup {[id |-> fid, sid |-> s]}
     /\ animFrameRef' = fid
     /\ isLoading' = (url # 0)
     /\ loadError' = Null
     /\ loadProgress' = 0
     /\ phase' = IF throws THEN "crashed" ELSE "mounted"
     /\ IF throws THEN projected' = projected
        ELSE \E vecs \in [1..Len(pins) -> NdcSamples] :
               projected' = projectPins(pins, TRUE, vecs, size)
     /\ pinsRef' = pins
     /\ lastRun' = [kind |-> kind, sid |-> s, threw |-> throws]

\* First commit: the fetch effect, the ref effects and the build effect
Mount ==
  /\ phase = "initial"
  /\ fetches' = IF modelId # 0 THEN {modelId} ELSE {}
  /\ editModeRef' = editMode
  /\ onPinPlacedRef' = onPinPlaced
  /\ BuildEffect(fileUrl, sess, frames, "mount")
  /\ UNCHANGED <<fileUrl, modelId, editMode, onPinPlaced, pins, notes, size, probe, hookVars, quizVars, authVars>>

\* fileUrl changes: the previous run's cleanup, then the effect again
ChangeFileUrl(url) ==
  /\ phase = "mounted"
  /\ url # fileUrl
  /\ nextSid <= MaxSessions
  /\ fileUrl' = url
  /\ BuildEffect(url, [sess EXCEPT ![cur] = cleanup(@)],
                 FramesAfterCancel(frames, animFrameRef), "build")
  /\ UNCHANGED <<modelId, editMode, onPinPlaced, editModeRef, onPinPlacedRef,
                 pins, notes, fetches, size, probe, hookVars, quizVars, authVars>>

\* The component unmounts: the cleanup of the current run
Unmount ==
  /\ phase = "mounted"
  /\ phase' = "unmounted"
  /\ sess' = [sess EXCEPT ![cur] = cleanup(@)]
  /\ frames' = FramesAfterCancel(frames, animFrameRef)
  /\ lastRun' = [kind |-> "unmount", sid |-> cur]
  /\ UNCHANGED <<propVars, cur, nextSid, animFrameRef, loadVars, pinVars, projected, size, probe, hookVars, quizVars, authVars>>

(***************************************************************************)
(* The loader's callbacks.  Nothing cancels the request at cleanup, so a   *)
(* callback runs whatever became of the session that asked.                *)
(***************************************************************************)
\* The bounding box of the asset behind a URL; the root's own position and scale
\* are the identity (gltf.scene).  An asset without geometry has an empty
\* box, whose getCenter and getSize are both (0,0,0).
Asset(url) ==
  IF url = 1 THEN [size |-> <<2, 4, 2>>, center |-> <<0, 0, 0>>]
  ELSE IF url = 2 THEN [size |-> <<1, 1, 2>>, center |-> <<1, 0, 0>>]
  ELSE [size |-> <<0, 0, 0>>, center |-> <<0, 0, 0>>]

Max3(v) ==
  IF v[1] >= v[2] /\ v[1] >= v[3] THEN v[1] ELSE IF v[2] >= v[3] THEN v[2] ELSE v[3]

\* onLoad: scale, re-centre, add to the scene, frame the camera, update
OnLoad(s) ==
  LET box == Asset(s.url)
      maxDim == Max3(box.size)
      scale == Num(3, maxDim)
      d == Mul(NumOf(maxDim), scale)
      centred == [i \in 1..3 |-> Neg(Mul(NumOf(box.center[i]), scale))]
  IN update([s EXCEPT
       !.load = "loaded",
       !.model = [scale |-> scale, position |-> centred],
       !.scene = @ \cup {"gltfScene"},
       !.controls.target = Origin,
       !.camera.position = [anchor |-> <<Mul(d, <<3, 2>>), d, Mul(d, <<3, 2>>)>>,
                            az |-> 0, zoom |-> 0, shift |-> 0]])

\* onError without the placeholder
OnErrorBare(s) == [s EXCEPT !.load = "failed"]

\* onError: the placeholder goes into the closure's scene
OnError(s) == [s EXCEPT !.load = "failed", !.scene = buildFallbackModel(@)]

LoadSuccess(s) ==
  /\ sess[s].load = "pending"
  /\ sess' = [sess EXCEPT ![s] = OnLoad(@)]
  /\ isLoading' = SetState(isLoading, FALSE)
  /\ lastRun' = [kind |-> "loadSuccess", sid |-> s]
  /\ UNCHANGED <<phase, propVars, cur, nextSid, animFrameRef, frames, loadError,
                 loadProgress, pinVars, projected, size, probe, hookVars, quizVars, authVars>>

\* Math.round((loaded / total) * 100)
Percent(loaded, total) == (200 * loaded + total) \div (2 * total)

LoadProgress(s, loaded, total) ==
  /\ sess[s].load = "pending"
  /\ loadProgress' = IF total > 0 THEN SetState(loadProgress, Percent(loaded, total))
                     ELSE loadProgress
  /\ lastRun' = [kind |-> "loadProgress", sid |-> s]
  /\ UNCHANGED <<phase, propVars, sessVars, isLoading, loadError, pinVars, projected, size, probe, hookVars, quizVars, authVars>>

LoadError(s) ==
  /\ sess[s].load = "pending"
  /\ sess' = [sess EXCEPT ![s] = OnError(@)]
  /\ loadError' = SetState(loadError, "Error al cargar el modelo 3D")
  /\ isLoading' = SetState(isLoading, FALSE)
  /\ lastRun' = [kind |-> "loadError", sid |-> s]
  /\ UNCHANGED <<phase, propVars, cur, nextSid, animFrameRef, frames, loadProgress,
                 pinVars, projected, size, probe, hookVars, quizVars, authVars>>

(***************************************************************************)
(* The render loop, the resize observer and the dblclick listener.         *)
(***************************************************************************)
\* animate: request the next frame, controls.update(), render, projectPins().
\* containerRef.current is null once the component is unmounted.
Tick(f) ==
  LET s == f.sid
      rest == frames \ {f}
      fid == NewFrameId(rest, animFrameRef)
      haveRefs == cur # 0 /\ phase = "mounted"
      throws == haveRefs /\ ProjectThrows(pinsRef)
  IN /\ f \in frames
     /\ frames' = rest \cup {[id |-> fid, sid |-> s]}
     /\ animFrameRef' = fid
     /\ sess' = [sess EXCEPT ![s] = update(@)]
     /\ IF throws THEN projected' = projected
        ELSE \E vecs \in [1..Len(pinsRef) -> NdcSamples] :
               projected' = SetState(projected, projectPins(pinsRef, haveRefs, vecs, size))
     /\ lastRun' = [kind |-> "tick", sid |-> s, threw |-> throws]
     /\ UNCHANGED <<phase, propVars, cur, nextSid, loadVars, pinVars, size, probe, hookVars, quizVars, authVars>>

\* handleResize, run by the ResizeObserver while it is connected
HandleResize(s, wh) ==
  /\ sess[s].observer
  /\ size' = wh
  /\ sess' = [sess EXCEPT ![s].camera.aspect = wh]
  /\ lastRun' = [kind |-> "resize", sid |-> s]
  /\ UNCHANGED <<phase, propVars, cur, nextSid, animFrameRef, frames, loadVars,
                 pinVars, projected, probe, hookVars, quizVars, authVars>>

\* An intersection of the ray with a mesh: hit.point and hit.face.normal are
\* named after the object and the distance
Hit(m, d, face) == [object |-> m, distance |-> d, face |-> face]
\* The intersections a double click may make with the meshes handed to the raycaster
RayHits(meshes) ==
  {{}} \cup {{Hit(m, d, b)} : m \in meshes, d \in 1..2, b \in BOOLEAN}
       \cup {{Hit(m[1], 1, b), Hit(m[2], 2, TRUE)} :
               m \in {p \in meshes \X meshes : p[1] # p[2]}, b \in BOOLEAN}

\* raycaster.intersectObjects(meshes, false): the hits, nearest first
RECURSIVE intersectObjects(_)
intersectObjects(hits) ==
  IF hits = {} THEN <<>>
  ELSE LET h == CHOOSE x \in hits : \A y \in hits : x.distance <= y.distance
       IN <<h>> \o intersectObjects(hits \ {h})

\* The arguments of onPinPlacedRef.current(...) for intersects[0]
PlacementOf(hit) ==
  [position |-> <<hit.object, hit.distance>>,
   normal |-> IF hit.face THEN <<"normal", hit.object>> ELSE <<"undefined", "">>]

\* handleClick that reports the farthest intersection
handleClickFarthest(early, hits) ==
  LET intersects == intersectObjects(hits)
  IN IF early THEN <<>>
     ELSE IF Len(intersects) > 0 THEN <<PlacementOf(intersects[Len(intersects)])>> ELSE <<>>

\* The calls of onPinPlacedRef.current that handleClick makes
handleClick(early, hits) ==
  LET intersects == intersectObjects(hits)
  IN IF early THEN <<>>
     ELSE IF Len(intersects) > 0 THEN <<PlacementOf(intersects[1])>> ELSE <<>>

HandleClick(s) ==
  LET early == ~editModeRef \/ ~onPinPlacedRef \/ cur = 0
  IN /\ sess[s].listener
     /\ \E hits \in (IF early THEN {{}} ELSE RayHits(MeshesOf(sess[cur].scene))) :
          lastRun' = [kind |-> "dblclick", sid |-> s, early |-> early, hits |-> hits,
                      calls |-> handleClick(early, hits)]
     /\ UNCHANGED <<phase, propVars, sessVars, loadVars, pinVars, projected, size, probe, hookVars, quizVars, authVars>>

(***************************************************************************)
(* The pins + notes fetch effect and the pinsRef effect.                   *)
(***************************************************************************)
\* modelId changes: the fetch effect runs again; nothing cancels the
\* request of the previous model.  Pending effects are flushed first.
ChangeModelId(m) ==
  /\ phase = "mounted"
  /\ m # modelId
  /\ modelId' = m
  /\ pinsRef' = pins
  /\ fetches' = IF m # 0 THEN fetches \cup {m} ELSE fetches
  /\ lastRun' = [kind |-> "modelId", sid |-> cur]
  /\ UNCHANGED <<phase, fileUrl, editMode, onPinPlaced, editModeRef, onPinPlacedRef,
                 sessVars, loadVars, pins, notes, projected, size, probe, hookVars, quizVars, authVars>>

\* A fetch completion that also puts the viewer back into its loading state
FetchResolveReloads(m, pinsRes, notesRes) ==
  /\ m \in fetches
  /\ fetches' = fetches \ {m}
  /\ pins' = SetState(pins, OrEmpty(pinsRes))
  /\ notes' = SetState(notes, OrEmpty(notesRes))
  /\ isLoading' = TRUE
  /\ lastRun' = [kind |-> "fetchResolve", sid |-> cur, model |-> m,
                 pinsRes |-> pinsRes, notesRes |-> notesRes]
  /\ UNCHANGED <<phase, propVars, sessVars, loadError, loadProgress, pinsRef, projected,
                 size, probe, hookVars, quizVars, authVars>>

\* Promise.all resolved: setPins(pinsRes.items || []), setNotes(notesRes.items || [])
FetchResolve(m, pinsRes, notesRes) ==
  /\ m \in fetches
  /\ fetches' = fetches \ {m}
  /\ pins' = SetState(pins, OrEmpty(pinsRes))
  /\ notes' = SetState(notes, OrEmpty(notesRes))
  /\ lastRun' = [kind |-> "fetchResolve", sid |-> cur, model |-> m,
                 pinsRes |-> pinsRes, notesRes |-> notesRes]
  /\ UNCHANGED <<phase, propVars, sessVars, loadVars, pinsRef, projected, size, probe, hookVars, quizVars, authVars>>

\* either request rejected: console.warn, no state is set
FetchReject(m) ==
  /\ m \in fetches
  /\ fetches' = fetches \ {m}
  /\ lastRun' = [kind |-> "fetchReject", sid |-> cur, model |-> m]
  /\ UNCHANGED <<phase, propVars, sessVars, loadVars, pins, notes, pinsRef, projected,
                 size, probe, hookVars, quizVars, authVars>>

\* useEffect(() => { pinsRef.current = pins; }, [pins]), after the commit
\* that rendered the new pins
SyncPinsRef ==
  /\ phase = "mounted"
  /\ pinsRef # pins
  /\ pinsRef' = pins
  /\ lastRun' = [kind |-> "pinsRef", sid |-> cur]
  /\ UNCHANGED <<phase, propVars, sessVars, loadVars, pins, notes, fetches, projected,
                 size, probe, hookVars, quizVars, authVars>>

(***************************************************************************)
(* Camera buttons and the gestures OrbitControls listens to.               *)
(***************************************************************************)
MaxPan == 1

\* resetCamera: position.set(3, 2, 4), target.set(0, 0, 0), controls.update()
resetCamera(s) ==
  update([s EXCEPT !.camera.position = DefaultPosition, !.controls.target = Origin])

\* zoomIn / zoomOut: position.addScaledVector(dir, +-0.5)
zoom(s, step) == [s EXCEPT !.camera.position.zoom = @ + step]

ResetCamera ==
  /\ phase = "mounted"
  /\ sess' = [sess EXCEPT ![cur] = resetCamera(@)]
  /\ lastRun' = [kind |-> "resetCamera", sid |-> cur]
  /\ UNCHANGED <<phase, propVars, cur, nextSid, animFrameRef, frames, loadVars, pinVars,
                 projected, size, probe, hookVars, quizVars, authVars>>

ZoomIn ==
  /\ phase = "mounted"
  /\ sess[cur].camera.position.zoom < MaxZoom
  /\ sess' = [sess EXCEPT ![cur] = zoom(@, 1)]
  /\ lastRun' = [kind |-> "zoomIn", sid |-> cur]
  /\ UNCHANGED <<phase, propVars, cur, nextSid, animFrameRef, frames, loadVars, pinVars,
                 projected, size, probe, hookVars, quizVars, authVars>>

ZoomOut ==
  /\ phase = "mounted"
  /\ sess[cur].camera.position.zoom > -MaxZoom
  /\ sess' = [sess EXCEPT ![cur] = zoom(@, -1)]
  /\ lastRun' = [kind |-> "zoomOut", sid |-> cur]
  /\ UNCHANGED <<phase, propVars, cur, nextSid, animFrameRef, frames, loadVars, pinVars,
                 projected, size, probe, hookVars, quizVars, authVars>>

\* A rotate drag on the canvas: OrbitControls adds to its pending rotation
Orbit ==
  /\ phase = "mounted"
  /\ sess[cur].controls.sphericalDelta = 0
  /\ sess' = [sess EXCEPT ![cur].controls.sphericalDelta = 1]
  /\ lastRun' = [kind |-> "orbit", sid |-> cur]
  /\ UNCHANGED <<phase, propVars, cur, nextSid, animFrameRef, frames, loadVars, pinVars,
                 projected, size, probe, hookVars, quizVars, authVars>>

\* A pan drag on the canvas: OrbitControls adds to its pending pan
Pan ==
  /\ phase = "mounted"
  /\ sess[cur].controls.panOffset = 0
  /\ sess[cur].controls.target < MaxPan
  /\ sess' = [sess EXCEPT ![cur].controls.panOffset = 1]
  /\ lastRun' = [kind |-> "pan", sid |-> cur]
  /\ UNCHANGED <<phase, propVars, cur, nextSid, animFrameRef, frames, loadVars, pinVars,
                 projected, size, probe, hookVars, quizVars, authVars>>

\* The cleanup closure of a torn-down session called once more
CleanupAgain(s) ==
  /\ sess[s].status = "torn"
  /\ sess[s].cleanups < MaxCleanups
  /\ sess' = [sess EXCEPT ![s] = cleanup(@)]
  /\ frames' = FramesAfterCancel(frames, animFrameRef)
  /\ lastRun' = [kind |-> "cleanupAgain", sid |-> s]
  /\ UNCHANGED <<phase, propVars, cur, nextSid, animFrameRef, loadVars, pinVars,
                 projected, size, probe, hookVars, quizVars, authVars>>

(***************************************************************************)
(* projectPins on a camera whose view is known exactly.                    *)
(***************************************************************************)
ProbeCoords == {-250, -200, -3, -1, 0, 1, 3, 250}
ProbePoints == ProbeCoords \X ProbeCoords \X ProbeCoords

\* Cameras looking along -z, along +x and straight down
ProbeViews ==
  {[position |-> p, right |-> <<1, 0, 0>>, up |-> <<0, 1, 0>>, fwd |-> <<0, 0, -1>>] :
      p \in {<<0, 0, 0>>, <<0, 0, 3>>}}
  \cup {[position |-> <<-3, 0, 0>>, right |-> <<0, 0, 1>>, up |-> <<0, 1, 0>>,
         fwd |-> <<1, 0, 0>>],
        [position |-> <<0, 3, 0>>, right |-> <<1, 0, 0>>, up |-> <<0, 0, -1>>,
         fwd |-> <<0, -1, 0>>]}

\* Host sizes of the probe: two aspect ratios
ProbeRects == Sizes \cup {<<600, 600>>}

NoProbe == [camera |-> [view |-> CHOOSE v \in ProbeViews : TRUE, aspect |-> <<800, 600>>],
            pins |-> <<>>, rect |-> <<800, 600>>, ran |-> FALSE, out |-> <<>>]

\* projectPins() with cameraRef.current = probe.camera and pinsRef.current = probe.pins
ProbeProject ==
  /\ ~probe.ran
  /\ probe' = [probe EXCEPT
       !.ran = TRUE,
       !.out = projectPins(probe.pins, TRUE,
                           [i \in 1..Len(probe.pins) |->
                              project(probe.pins[i].geometry, probe.camera)],
                           probe.rect)]
  /\ UNCHANGED <<viewerVars, hookVars, quizVars, authVars>>

\* handleResize on the probe: the camera's aspect and the rect follow the host
ProbeResize(wh) ==
  /\ probe.rect # wh
  /\ probe' = [probe EXCEPT !.camera.aspect = wh, !.rect = wh, !.ran = FALSE, !.out = <<>>]
  /\ UNCHANGED <<viewerVars, hookVars, quizVars, authVars>>

(***************************************************************************)
(* useCourseTree: the courses of an institution and the content tree of    *)
(* the selected course.  A course stands for the Course object; a content  *)
(* tree is named after the course it was built for.                        *)
(***************************************************************************)
MaxBuilds == 3
Awaits == 3
Institutions == {1}
Courses == {1, 2}
Builds == 1..MaxBuilds

\* What getCourses can answer for an institution: res.items
CourseResponses(i) == {<<>>, <<1, 2>>}

NoTree == [course |-> 0]
NoBuild == [course |-> 0, aborted |-> FALSE, stage |-> 0, status |-> "none"]

\* The tree buildContentTree assembles for a course
ContentTree(c) == [course |-> c]

\* throwIfAborted(signal): TRUE when it throws the AbortError
throwIfAborted(b) == b.aborted

\* A cleanup that leaves the signal as it is
KeepSignal(b) == b

\* abortCtrl.abort()
abort(b) == [b EXCEPT !.aborted = TRUE]

\* The build-tree effect for selectedCourse = c: the cleanup of the previous
\* run, then the body
TreeEffect(c) ==
  LET cleaned == IF curBuild # 0 THEN [builds EXCEPT ![curBuild] = abort(@)] ELSE builds
  IN IF c = 0
     THEN /\ builds' = cleaned
          /\ curBuild' = 0
          /\ tree' = NoTree
          /\ UNCHANGED <<treeLoading, nextBuild>>
     ELSE /\ builds' = [cleaned EXCEPT ![nextBuild] =
                          [course |-> c, aborted |-> FALSE, stage |-> 0, status |-> "pending"]]
          /\ curBuild' = nextBuild
          /\ nextBuild' = nextBuild + 1
          /\ treeLoading' = TRUE
          /\ tree' = NoTree

Cancelled(reqs) == {[r EXCEPT !.cancelled = TRUE] : r \in reqs}

\* The load-courses effect for institutionId = i: the cleanup of the previous
\* run, then the body; setSelectedCourse(null) re-runs the build-tree effect
\* when a course was selected
CoursesEffect(i) ==
  IF i = 0
  THEN /\ coursesLoading' = FALSE
       /\ courses' = <<>>
       /\ selectedCourse' = 0
       /\ coursesReqs' = Cancelled(coursesReqs)
       /\ IF selectedCourse # 0 THEN TreeEffect(0)
          ELSE UNCHANGED <<tree, treeLoading, builds, curBuild, nextBuild>>
  ELSE /\ coursesLoading' = TRUE
       /\ coursesReqs' = Cancelled(coursesReqs) \cup {[inst |-> i, cancelled |-> FALSE]}
       /\ UNCHANGED <<courses, selectedCourse, tree, treeLoading, builds, curBuild, nextBuild>>

\* First commit of the hook: both effects run; no course is selected yet
MountHook ==
  /\ hookPhase = "initial"
  /\ hookPhase' = "mounted"
  /\ IF institutionId = 0
     THEN /\ coursesLoading' = FALSE
          /\ courses' = <<>>
          /\ UNCHANGED coursesReqs
     ELSE /\ coursesLoading' = TRUE
          /\ coursesReqs' = {[inst |-> institutionId, cancelled |-> FALSE]}
          /\ UNCHANGED courses
  /\ tree' = NoTree
  /\ UNCHANGED <<institutionId, selectedCourse, treeLoading, builds, curBuild, nextBuild>>
  /\ UNCHANGED <<viewerVars, probe, quizVars, authVars>>

\* The active membership changes: institutionId changes
ChangeInstitution(i) ==
  /\ hookPhase = "mounted"
  /\ i # institutionId
  /\ institutionId' = i
  /\ CoursesEffect(i)
  /\ UNCHANGED hookPhase
  /\ UNCHANGED <<viewerVars, probe, quizVars, authVars>>

\* getCourses resolved: then and finally, both behind the cancelled flag;
\* setSelectedCourse(items[0]) hands a new Course object to the build-tree effect
CoursesResolve(r, items) ==
  /\ r \in coursesReqs
  /\ coursesReqs' = coursesReqs \ {r}
  /\ IF r.cancelled
     THEN UNCHANGED <<courses, selectedCourse, coursesLoading, tree, treeLoading, builds,
                      curBuild, nextBuild>>
     ELSE /\ courses' = items
          /\ coursesLoading' = FALSE
          /\ IF Len(items) > 0
             THEN /\ nextBuild <= MaxBuilds
                  /\ selectedCourse' = items[1]
                  /\ TreeEffect(items[1])
             ELSE UNCHANGED <<selectedCourse, tree, treeLoading, builds, curBuild, nextBuild>>
  /\ UNCHANGED <<hookPhase, institutionId>>
  /\ UNCHANGED <<viewerVars, probe, quizVars, authVars>>

\* getCourses rejected: catch logs, finally clears coursesLoading unless cancelled
CoursesReject(r) ==
  /\ r \in coursesReqs
  /\ coursesReqs' = coursesReqs \ {r}
  /\ coursesLoading' = IF r.cancelled THEN coursesLoading ELSE FALSE
  /\ UNCHANGED <<hookPhase, institutionId, courses, selectedCourse, tree, treeLoading,
                 builds, curBuild, nextBuild>>
  /\ UNCHANGED <<viewerVars, probe, quizVars, authVars>>

\* CourseToolbar: the user picks another course of the list
SelectCourse(c) ==
  /\ hookPhase = "mounted"
  /\ Len(courses) > 1
  /\ \E k \in 1..Len(courses) : courses[k] = c
  /\ c # selectedCourse
  /\ nextBuild <= MaxBuilds
  /\ selectedCourse' = c
  /\ TreeEffect(c)
  /\ UNCHANGED <<hookPhase, institutionId, courses, coursesLoading, coursesReqs>>
  /\ UNCHANGED <<viewerVars, probe, quizVars, authVars>>

\* A request buildContentTree awaits has resolved: the checkpoint after it,
\* and after the last one the assembly, then and finally
BuildAdvance(b) ==
  /\ builds[b].status = "pending"
  /\ IF throwIfAborted(builds[b])
     THEN /\ builds' = [builds EXCEPT ![b].status = "abortError"]
          /\ UNCHANGED <<tree, treeLoading>>
     ELSE IF builds[b].stage + 1 < Awaits
     THEN /\ builds' = [builds EXCEPT ![b].stage = @ + 1]
          /\ UNCHANGED <<tree, treeLoading>>
     ELSE /\ builds' = [builds EXCEPT ![b].stage = Awaits, ![b].status = "resolved"]
          /\ tree' = IF ~builds[b].aborted THEN ContentTree(builds[b].course) ELSE tree
          /\ treeLoading' = IF ~builds[b].aborted THEN FALSE ELSE treeLoading
  /\ UNCHANGED <<courseVars, coursesReqs, curBuild, nextBuild>>
  /\ UNCHANGED <<viewerVars, probe, quizVars, authVars>>

\* A request buildContentTree awaits has rejected: catch logs, finally
\* clears treeLoading unless the signal is aborted
BuildFail(b) ==
  /\ builds[b].status = "pending"
  /\ builds' = [builds EXCEPT ![b].status = "error"]
  /\ treeLoading' = IF ~builds[b].aborted THEN FALSE ELSE treeLoading
  /\ UNCHANGED <<courseVars, coursesReqs, tree, curBuild, nextBuild>>
  /\ UNCHANGED <<viewerVars, probe, quizVars, authVars>>

\* The hook's component unmounts: the cleanups of both effects
UnmountHook ==
  /\ hookPhase = "mounted"
  /\ hookPhase' = "unmounted"
  /\ coursesReqs' = Cancelled(coursesReqs)
  /\ builds' = IF curBuild # 0 THEN [builds EXCEPT ![curBuild] = abort(@)] ELSE builds
  /\ UNCHANGED <<institutionId, courses, selectedCourse, coursesLoading, tree, treeLoading,
                 curBuild, nextBuild>>
  /\ UNCHANGED <<viewerVars, probe, quizVars, authVars>>

\* useCourseTree at its first render
InitHook ==
  /\ hookPhase = "initial"
  /\ institutionId = 1
  /\ courses = <<>>
  /\ selectedCourse = 0
  /\ coursesLoading = TRUE
  /\ coursesReqs = {}
  /\ tree = NoTree
  /\ treeLoading = FALSE
  /\ builds = [b \in Builds |-> NoBuild]
  /\ curBuild = 0
  /\ nextBuild = 1

(***************************************************************************)
(* QuizView, QuizSelection and QuizSession (QuizView.tsx), with the study  *)
(* sessions and quiz attempts of quizApi.  One course is selected; a topic *)
(* stands for its id and its name.  Date.now() and the times derived from  *)
(* it are left out.                                                        *)
(***************************************************************************)
MaxStarts == 3

Starts == 1..MaxStarts
Topics == {1, 2}

\* What getSummaries and getQuizQuestions deliver for a topic
Quiz(t) ==
  IF t = 1
  THEN << [id |-> 11, question_type |-> "multiple_choice", correct_answer |-> "a"],
          [id |-> 12, question_type |-> "open", correct_answer |-> "A"] >>
  ELSE << [id |-> 21, question_type |-> "true_false", correct_answer |-> "false"],
          [id |-> 22, question_type |-> "multiple_choice", correct_answer |-> "a"] >>

IsChoice(question) == question.question_type \in {"multiple_choice", "true_false"}
Options(question) ==
  IF question.question_type = "true_false" THEN {"true", "false"} ELSE {"a", "b"}
Texts == {" ", "A", "b"}
NoOption == ""
trim(s) == IF s = " " THEN "" ELSE s
toLowerCase(s) == IF s = "A" THEN "a" ELSE s

NoResults == [total |-> 0, correct |-> 0, answers |-> <<>>]
NoStart == [stage |-> "none", topic |-> 0, qs |-> <<>>, live |-> FALSE]
\* A call that returned; nothing holds its closure any more
DoneStart == [stage |-> "done", topic |-> 0, qs |-> <<>>, live |-> FALSE]
NoStudySession == [created |-> FALSE, closes |-> 0]

\* questions[currentIdx] of QuizSession
CurrentQuestion == questions[currentIdx + 1]

\* The effect on [currentIdx] without its look at the recorded answer
resetLiveStateBlank(ans, idx) ==
  [selectedOption |-> NoOption, textAnswer |-> "", submitted |-> FALSE]

\* The effect on [currentIdx]: the live state of the question shown
resetLiveState(ans, idx) ==
  IF idx \in DOMAIN ans
  THEN [selectedOption |-> ans[idx].answer, textAnswer |-> ans[idx].answer,
        submitted |-> TRUE]
  ELSE [selectedOption |-> NoOption, textAnswer |-> "", submitted |-> FALSE]

\* The QuizSession rendered once phase is p: one that stays mounted keeps
\* its state, one that mounts starts from its useState initial values, and
\* the state of one that unmounts is gone
RenderSession(p) ==
  IF quizPhase = "session" /\ p = "session"
  THEN UNCHANGED quizSessionVars
  ELSE /\ currentIdx' = 0
       /\ answers' = <<>>
       /\ selectedOption' = NoOption
       /\ textAnswer' = ""
       /\ submitted' = FALSE
       /\ attempts' = <<>>

\* The QuizSelection rendered once phase is p: when it unmounts, the
\* setLoadingTopicId of its handleTopicClick calls no longer does anything
RenderSelection(p, ltid, sts) ==
  IF quizPhase = "selection" /\ p = "selection"
  THEN loadingTopicId' = ltid /\ starts' = sts
  ELSE /\ loadingTopicId' = 0
       /\ starts' = [r \in Starts |-> [sts[r] EXCEPT !.live = FALSE]]

\* QuizSelection.handleTopicClick up to its first await
handleTopicClick(t) ==
  /\ quizPhase = "selection"
  /\ loadingTopicId = 0
  /\ nextStart <= MaxStarts
  /\ loadingTopicId' = t
  /\ starts' = [starts EXCEPT ![nextStart] =
                  [stage |-> "loading", topic |-> t, qs |-> <<>>, live |-> TRUE]]
  /\ nextStart' = nextStart + 1
  /\ UNCHANGED <<quizPhase, questions, sessionId, selectedTopicName, lastResults,
                 studySessions>>
  /\ UNCHANGED quizSessionVars
  /\ UNCHANGED <<viewerVars, probe, hookVars, authVars>>

\* handleTopicClick after its awaits, with questions: onSelect, which is
\* startQuiz up to the await of createSessionAndStart, then finally
TopicLoaded(r) ==
  /\ starts[r].stage = "loading"
  /\ selectedTopicName' = starts[r].topic
  /\ lastResults' = NoResults
  /\ starts' = [starts EXCEPT ![r] =
                  [@ EXCEPT !.stage = "creating", !.qs = Quiz(starts[r].topic)]]
  /\ loadingTopicId' = IF starts[r].live THEN 0 ELSE loadingTopicId
  /\ UNCHANGED <<quizPhase, questions, sessionId, nextStart, studySessions>>
  /\ UNCHANGED quizSessionVars
  /\ UNCHANGED <<viewerVars, probe, hookVars, authVars>>

\* handleTopicClick after its awaits, without summaries or questions or
\* with a request that threw
TopicFailed(r) ==
  /\ starts[r].stage = "loading"
  /\ starts' = [starts EXCEPT ![r] = DoneStart]
  /\ loadingTopicId' = IF starts[r].live THEN 0 ELSE loadingTopicId
  /\ UNCHANGED <<quizPhase, questions, sessionId, selectedTopicName, lastResults,
                 nextStart, studySessions>>
  /\ UNCHANGED quizSessionVars
  /\ UNCHANGED <<viewerVars, probe, hookVars, authVars>>

\* createSessionAndStart after createStudySession settled; the session the
\* server created has the id of the call
CreateSettle(r, ok) ==
  /\ starts[r].stage = "creating"
  /\ studySessions' = IF ok THEN [studySessions EXCEPT ![r].created = TRUE]
                      ELSE studySessions
  /\ sessionId' = IF ok THEN r ELSE 0
  /\ questions' = starts[r].qs
  /\ quizPhase' = "session"
  /\ RenderSelection("session", loadingTopicId, [starts EXCEPT ![r] = DoneStart])
  /\ RenderSession("session")
  /\ UNCHANGED <<selectedTopicName, lastResults, nextStart>>
  /\ UNCHANGED <<viewerVars, probe, hookVars, authVars>>

\* goBackFromSession, the onBack of QuizSession
goBackFromSession ==
  /\ quizPhase = "session"
  /\ quizPhase' = "selection"
  /\ RenderSelection("selection", loadingTopicId, starts)
  /\ RenderSession("selection")
  /\ UNCHANGED <<questions, sessionId, selectedTopicName, lastResults, nextStart,
                 studySessions>>
  /\ UNCHANGED <<viewerVars, probe, hookVars, authVars>>

\* A restart that shows the session at once, with the session id it has
handleRestartEager ==
  /\ quizPhase = "results"
  /\ lastResults # NoResults
  /\ lastResults' = NoResults
  /\ quizPhase' = "session"
  /\ RenderSelection("session", loadingTopicId, starts)
  /\ RenderSession("session")
  /\ UNCHANGED <<questions, sessionId, selectedTopicName, nextStart, studySessions>>
  /\ UNCHANGED <<viewerVars, probe, hookVars, authVars>>

\* handleRestart, the onRestart of QuizResults, up to the await of
\* createSessionAndStart
handleRestart ==
  /\ quizPhase = "results"
  /\ lastResults # NoResults
  /\ nextStart <= MaxStarts
  /\ lastResults' = NoResults
  /\ starts' = [starts EXCEPT ![nextStart] =
                  [stage |-> "creating", topic |-> selectedTopicName, qs |-> questions,
                   live |-> FALSE]]
  /\ nextStart' = nextStart + 1
  /\ UNCHANGED <<quizPhase, questions, sessionId, selectedTopicName, loadingTopicId,
                 studySessions>>
  /\ UNCHANGED quizSessionVars
  /\ UNCHANGED <<viewerVars, probe, hookVars, authVars>>

\* backToSelection, the onBack of QuizResults
backToSelection ==
  /\ quizPhase = "results"
  /\ lastResults # NoResults
  /\ quizPhase' = "selection"
  /\ questions' = <<>>
  /\ sessionId' = 0
  /\ lastResults' = NoResults
  /\ RenderSelection("selection", loadingTopicId, starts)
  /\ RenderSession("selection")
  /\ UNCHANGED <<selectedTopicName, nextStart, studySessions>>
  /\ UNCHANGED <<viewerVars, probe, hookVars, authVars>>

\* onSelect of MultipleChoiceOptions and TrueFalseOptions
SelectOption(opt) ==
  /\ quizPhase = "session"
  /\ IsChoice(CurrentQuestion)
  /\ opt \in Options(CurrentQuestion)
  /\ ~submitted
  /\ selectedOption' = opt
  /\ UNCHANGED <<currentIdx, answers, textAnswer, submitted, attempts>>
  /\ UNCHANGED quizViewVars
  /\ UNCHANGED <<viewerVars, probe, hookVars, authVars>>

\* onTextChange of OpenAnswer, whose textarea is disabled once submitted
ChangeText(txt) ==
  /\ quizPhase = "session"
  /\ CurrentQuestion.question_type = "open"
  /\ ~submitted
  /\ textAnswer' = txt
  /\ UNCHANGED <<currentIdx, answers, selectedOption, submitted, attempts>>
  /\ UNCHANGED quizViewVars
  /\ UNCHANGED <<viewerVars, probe, hookVars, authVars>>

\* submitAnswer, from Confirmar or from Enter in the textarea
submitAnswer ==
  /\ quizPhase = "session"
  /\ ~submitted
  /\ LET userAnswer == IF IsChoice(CurrentQuestion) THEN selectedOption ELSE trim(textAnswer)
         isCorrect == IF IsChoice(CurrentQuestion) THEN selectedOption = CurrentQuestion.correct_answer
                      ELSE toLowerCase(userAnswer) = toLowerCase(CurrentQuestion.correct_answer)
     IN /\ userAnswer # ""
        /\ submitted' = TRUE
        /\ answers' = [i \in DOMAIN answers \cup {currentIdx} |->
                         IF i = currentIdx
                         THEN [answer |-> userAnswer, isCorrect |-> isCorrect]
                         ELSE answers[i]]
        /\ attempts' = [i \in DOMAIN attempts \cup {currentIdx} |->
                          (IF i \in DOMAIN attempts THEN attempts[i] ELSE 0)
                            + (IF i = currentIdx THEN 1 ELSE 0)]
  /\ UNCHANGED <<currentIdx, selectedOption, textAnswer>>
  /\ UNCHANGED quizViewVars
  /\ UNCHANGED <<viewerVars, probe, hookVars, authVars>>

\* setCurrentIdx(idx) and the effect on [currentIdx] that follows the render
Navigate(idx) ==
  /\ currentIdx' = idx
  /\ LET live == resetLiveState(answers, idx)
     IN /\ selectedOption' = live.selectedOption
        /\ textAnswer' = live.textAnswer
        /\ submitted' = live.submitted
  /\ UNCHANGED <<answers, attempts>>
  /\ UNCHANGED quizViewVars
  /\ UNCHANGED <<viewerVars, probe, hookVars, authVars>>

\* The indices with a recorded answer, in the order of Object.entries
AnsweredIdx == SelectSeq([k \in 1..Len(questions) |-> k - 1], LAMBDA i : i \in DOMAIN answers)

\* allAnswers of goNext
allAnswers ==
  [k \in 1..Len(AnsweredIdx) |->
     [questionId |-> questions[AnsweredIdx[k] + 1].id,
      answer |-> answers[AnsweredIdx[k]].answer,
      isCorrect |-> answers[AnsweredIdx[k]].isCorrect]]

\* The results goNext hands to onComplete
SessionResults ==
  [total |-> Len(questions),
   correct |-> Cardinality({k \in 1..Len(allAnswers) : allAnswers[k].isCorrect}),
   answers |-> allAnswers]

\* handleSessionComplete: closeSessionOnServer, then endSession
handleSessionComplete(results) ==
  /\ studySessions' = IF sessionId # 0
                      THEN [studySessions EXCEPT ![sessionId].closes = @ + 1]
                      ELSE studySessions
  /\ lastResults' = results
  /\ quizPhase' = "results"
  /\ RenderSelection("results", loadingTopicId, starts)
  /\ RenderSession("results")
  /\ UNCHANGED <<questions, sessionId, selectedTopicName, nextStart>>
  /\ UNCHANGED <<viewerVars, probe, hookVars, authVars>>

\* goNext, the button shown once the question is submitted
goNext ==
  /\ quizPhase = "session"
  /\ submitted
  /\ IF currentIdx < Len(questions) - 1
     THEN Navigate(currentIdx + 1)
     ELSE handleSessionComplete(SessionResults)

\* goPrev, disabled on the first question
goPrev ==
  /\ quizPhase = "session"
  /\ currentIdx > 0
  /\ Navigate(currentIdx - 1)

\* onJump of ProgressBar
onJump(idx) ==
  /\ quizPhase = "session"
  /\ idx \in 0..(Len(questions) - 1)
  /\ idx # currentIdx
  /\ Navigate(idx)

\* QuizView at its first render
InitQuiz ==
  /\ quizPhase = "selection"
  /\ questions = <<>>
  /\ sessionId = 0
  /\ selectedTopicName = 0
  /\ lastResults = NoResults
  /\ loadingTopicId = 0
  /\ starts = [r \in Starts |-> NoStart]
  /\ nextStart = 1
  /\ studySessions = [s \in Starts |-> NoStudySession]
  /\ currentIdx = 0
  /\ answers = <<>>
  /\ selectedOption = NoOption
  /\ textAnswer = ""
  /\ submitted = FALSE
  /\ attempts = <<>>

(***************************************************************************)
(* AuthProvider (AuthContext) over authApi.  A user, a membership and a    *)
(* token stand for their ids; 0 stands for null.  authApi keeps the auth   *)
(* data of a successful sign-in in localStorage and removes it on sign-out.*)
(***************************************************************************)
NoStored == [token |-> 0, user |-> 0, memberships |-> <<>>]

\* What localStorage can hold when the page loads
StoredAuth ==
  { NoStored,
    [token |-> 1, user |-> 0, memberships |-> <<>>],
    [token |-> 1, user |-> 1, memberships |-> <<>>],
    [token |-> 1, user |-> 1, memberships |-> <<1, 2>>] }

\* res.data of restoreSession, signIn and signUp
SessionData ==
  { [user |-> 1, memberships |-> <<1, 2>>, access_token |-> 2],
    [user |-> 2, memberships |-> <<>>, access_token |-> 2] }
NoData == [user |-> 0, memberships |-> <<>>, access_token |-> 0]

\* A call of authApi in flight; a restore call stays on record once settled
AuthReq(kind, token, storedUser) ==
  [kind |-> kind, token |-> token, storedUser |-> storedUser, outcome |-> "pending",
   data |-> NoData]

\* memberships[0] || null
FirstOrNull(ms) == IF ms = <<>> THEN 0 ELSE ms[1]

\* A clearAuthData that leaves localStorage as it is
keepAuthData(st) == st

\* clearAuthData of authApi
clearAuthData(st) == NoStored

\* A state setter of AuthProvider: nothing happens once it is unmounted
AuthSet(old, new) == IF authPhase = "mounted" THEN new ELSE old

\* The mount effect: restore() up to its await
MountAuth ==
  /\ authPhase = "initial"
  /\ authPhase' = "mounted"
  /\ IF stored.token = 0
     THEN /\ status' = "unauthenticated"
          /\ UNCHANGED <<user, memberships, activeMembership, accessToken, authReqs>>
     ELSE /\ IF stored.user # 0
             THEN /\ user' = stored.user
                  /\ memberships' = stored.memberships
                  /\ accessToken' = stored.token
                  /\ activeMembership' = FirstOrNull(stored.memberships)
             ELSE UNCHANGED <<user, memberships, activeMembership, accessToken>>
          /\ authReqs' = authReqs \cup {AuthReq("restore", stored.token, stored.user)}
          /\ UNCHANGED status
  /\ UNCHANGED stored
  /\ UNCHANGED <<viewerVars, probe, hookVars, quizVars>>

\* restore() after restoreSession resolved with success and data
RestoreConfirmed(r, data) ==
  /\ r \in authReqs /\ r.kind = "restore" /\ r.outcome = "pending"
  /\ authPhase = "mounted"
  /\ authReqs' = (authReqs \ {r}) \cup {[r EXCEPT !.outcome = "confirmed", !.data = data]}
  /\ user' = data.user
  /\ memberships' = data.memberships
  /\ accessToken' = r.token
  /\ activeMembership' = FirstOrNull(data.memberships)
  /\ status' = "authenticated"
  /\ UNCHANGED <<authPhase, stored>>
  /\ UNCHANGED <<viewerVars, probe, hookVars, quizVars>>

\* restore() after restoreSession resolved without success or without data
RestoreRejected(r) ==
  /\ r \in authReqs /\ r.kind = "restore" /\ r.outcome = "pending"
  /\ authPhase = "mounted"
  /\ authReqs' = (authReqs \ {r}) \cup {[r EXCEPT !.outcome = "rejected"]}
  /\ stored' = clearAuthData(stored)
  /\ user' = 0
  /\ memberships' = <<>>
  /\ accessToken' = 0
  /\ activeMembership' = 0
  /\ status' = "unauthenticated"
  /\ UNCHANGED authPhase
  /\ UNCHANGED <<viewerVars, probe, hookVars, quizVars>>

\* restore() after restoreSession threw
RestoreUnreachable(r) ==
  /\ r \in authReqs /\ r.kind = "restore" /\ r.outcome = "pending"
  /\ authPhase = "mounted"
  /\ authReqs' = (authReqs \ {r}) \cup {[r EXCEPT !.outcome = "unreachable"]}
  /\ IF r.storedUser # 0
     THEN status' = "authenticated" /\ UNCHANGED stored
     ELSE stored' = clearAuthData(stored) /\ status' = "unauthenticated"
  /\ UNCHANGED <<authPhase, user, memberships, activeMembership, accessToken>>
  /\ UNCHANGED <<viewerVars, probe, hookVars, quizVars>>

\* restore() after restoreSession settled with cancelled set by the cleanup
RestoreCancelled(r) ==
  /\ r \in authReqs /\ r.kind = "restore" /\ r.outcome = "pending"
  /\ authPhase = "unmounted"
  /\ authReqs' = (authReqs \ {r}) \cup {[r EXCEPT !.outcome = "cancelled"]}
  /\ UNCHANGED <<authPhase, authStateVars, stored>>
  /\ UNCHANGED <<viewerVars, probe, hookVars, quizVars>>

\* handleSignIn and handleSignUp up to their await
SignCall(kind) ==
  /\ authPhase = "mounted"
  /\ kind \in {"signIn", "signUp", "signOut"}
  /\ AuthReq(kind, 0, 0) \notin authReqs
  /\ authReqs' = authReqs \cup {AuthReq(kind, 0, 0)}
  /\ UNCHANGED <<authPhase, authStateVars, stored>>
  /\ UNCHANGED <<viewerVars, probe, hookVars, quizVars>>

\* handleSignIn / handleSignUp after apiSignIn / apiSignUp resolved with
\* success and data
SignedIn(r, data) ==
  /\ r \in authReqs /\ r.kind \in {"signIn", "signUp"}
  /\ authReqs' = authReqs \ {r}
  /\ stored' = [token |-> data.access_token, user |-> data.user,
                memberships |-> data.memberships]
  /\ user' = AuthSet(user, data.user)
  /\ memberships' = AuthSet(memberships, data.memberships)
  /\ accessToken' = AuthSet(accessToken, data.access_token)
  /\ activeMembership' = AuthSet(activeMembership, FirstOrNull(data.memberships))
  /\ status' = AuthSet(status, "authenticated")
  /\ UNCHANGED authPhase
  /\ UNCHANGED <<viewerVars, probe, hookVars, quizVars>>

\* handleSignIn / handleSignUp after a response without success or a throw,
\* and handleSignOut after apiSignOut threw
SignFailed(r) ==
  /\ r \in authReqs /\ r.kind \in {"signIn", "signUp", "signOut"}
  /\ authReqs' = authReqs \ {r}
  /\ UNCHANGED <<authPhase, authStateVars, stored>>
  /\ UNCHANGED <<viewerVars, probe, hookVars, quizVars>>

\* handleSignOut after apiSignOut resolved
SignedOut(r) ==
  /\ r \in authReqs /\ r.kind = "signOut"
  /\ authReqs' = authReqs \ {r}
  /\ stored' = NoStored
  /\ user' = AuthSet(user, 0)
  /\ memberships' = AuthSet(memberships, <<>>)
  /\ accessToken' = AuthSet(accessToken, 0)
  /\ activeMembership' = AuthSet(activeMembership, 0)
  /\ status' = AuthSet(status, "unauthenticated")
  /\ UNCHANGED authPhase
  /\ UNCHANGED <<viewerVars, probe, hookVars, quizVars>>

\* setActiveMembership
setActiveMembership(m) ==
  /\ authPhase = "mounted"
  /\ activeMembership' = m
  /\ UNCHANGED <<authPhase, status, user, memberships, accessToken, stored, authReqs>>
  /\ UNCHANGED <<viewerVars, probe, hookVars, quizVars>>

\* The cleanup of the mount effect
UnmountAuth ==
  /\ authPhase = "mounted"
  /\ authPhase' = "unmounted"
  /\ UNCHANGED <<authStateVars, stored, authReqs>>
  /\ UNCHANGED <<viewerVars, probe, hookVars, quizVars>>

\* AuthProvider at its first render
InitAuth ==
  /\ authPhase = "initial"
  /\ status = "loading"
  /\ user = 0
  /\ memberships = <<>>
  /\ activeMembership = 0
  /\ accessToken = 0
  /\ stored = NoStored
  /\ authReqs = {}

(***************************************************************************)
(* Specifications.                                                         *)
(***************************************************************************)
\* ModelViewer3D and useCourseTree at their first render
InitScene ==
  /\ InitHook
  /\ phase = "initial"
  /\ fileUrl \in {0} \cup Urls
  /\ modelId \in {0} \cup Models
  /\ editMode \in BOOLEAN
  /\ onPinPlaced \in BOOLEAN
  /\ editModeRef = editMode
  /\ onPinPlacedRef = onPinPlaced
  /\ cur = 0
  /\ nextSid = 1
  /\ sess = [s \in Sessions |-> NoSession]
  /\ animFrameRef = 0
  /\ frames = {}
  /\ isLoading = TRUE
  /\ loadError = Null
  /\ loadProgress = 0
  /\ pins = <<>>
  /\ notes = <<>>
  /\ pinsRef = <<>>
  /\ projected = <<>>
  /\ fetches = {}
  /\ size \in Sizes
  /\ lastRun = [kind |-> "none", sid |-> 0]

\* A page without viewer
InitNoViewer ==
  /\ InitScene
  /\ fileUrl = 0
  /\ modelId = 0
  /\ ~editMode
  /\ ~onPinPlaced
  /\ size = <<800, 600>>
  /\ probe = NoProbe

InitViewer ==
  /\ InitScene
  /\ InitQuiz
  /\ InitAuth

\* Session lifecycle of a viewer without modelId
Init ==
  /\ InitViewer
  /\ modelId = 0
  /\ ~editMode
  /\ ~onPinPlaced
  /\ size = <<800, 600>>
  /\ probe = NoProbe

Lifecycle ==
  \/ Mount
  \/ \E url \in {0} \cup Urls : ChangeFileUrl(url)
  \/ Unmount
  \/ \E s \in Sessions : LoadSuccess(s)
  \/ \E s \in Sessions : \E total \in {0, 2} : \E loaded \in {1} : LoadProgress(s, loaded, total)
  \/ \E s \in Sessions : LoadError(s)
  \/ \E f \in frames : Tick(f)

Next == Lifecycle

Spec == Init /\ [][Next]_vars

\* The render loop, the resize observer and the dblclick listener across sessions
Loop ==
  \/ Mount
  \/ \E url \in {0} \cup Urls : ChangeFileUrl(url)
  \/ Unmount
  \/ \E f \in frames : Tick(f)
  \/ \E s \in Sessions : \E wh \in Sizes : HandleResize(s, wh)
  \/ \E s \in Sessions : HandleClick(s)

SpecLoop == Init /\ [][Loop]_vars

\* The cleanup closure as a caller may use it: once by React, and again
SpecCleanupTwice == Init /\ [][Lifecycle \/ \E s \in Sessions : CleanupAgain(s)]_vars

(***************************************************************************)
(* Properties of the session lifecycle.                                    *)
(***************************************************************************)
IsLoadCallback(kind) == kind \in {"loadSuccess", "loadProgress", "loadError"}

\* C1: a success, progress or failure callback of a load whose session was
\* torn down changes neither isLoading, loadError, loadProgress nor any
\* scene graph.
LateLoadCallbackIsNoOp ==
  [][\A s \in Sessions :
       (sess[s].status = "torn" /\ IsLoadCallback(lastRun'.kind) /\ lastRun'.sid = s)
         => /\ UNCHANGED <<isLoading, loadError, loadProgress>>
            /\ \A t \in Sessions : sess'[t].scene = sess[t].scene]_vars

Disposed(s, n) ==
  /\ sess[s].disposed[<<"geometry", n>>] >= 1
  /\ sess[s].disposed[<<"material", MaterialOf(n)>>] >= 1

\* C2: at most one session is alive, and every mesh in the scene graph of a
\* torn-down session has had its geometry and its material disposed.
OneSessionNoLeak ==
  /\ Cardinality({s \in Sessions : sess[s].status = "alive"}) <= 1
  /\ \A s \in Sessions :
       sess[s].status = "torn" => \A n \in MeshesOf(sess[s].scene) : Disposed(s, n)

\* C3: a render tick, a resize callback or a dblclick handler only ever runs
\* for a session that is alive; a torn-down session has no frame requested,
\* no observer connected and no listener attached.
NoCallbackAfterTeardown ==
  /\ lastRun.kind \in {"tick", "resize", "dblclick"} => sess[lastRun.sid].status = "alive"
  /\ \A f \in frames : sess[f.sid].status = "alive"
  /\ \A s \in Sessions : sess[s].status = "torn" => ~sess[s].observer /\ ~sess[s].listener

\* C3 witness: the loop of a later session ticks after an earlier session was torn down
TickAfterTeardown ==
  /\ lastRun.kind = "tick"
  /\ \E s \in Sessions : sess[s].status = "torn" /\ s < lastRun.sid

\* C4: a second invocation of a session's cleanup disposes nothing again.
SecondCleanupDisposesNothing ==
  [][\A s \in Sessions :
       (sess[s].cleanups >= 1 /\ sess'[s].cleanups > sess[s].cleanups)
         => sess'[s].disposed = sess[s].disposed]_vars

\* C10: when the load of the current session of a mounted viewer fails, the
\* placeholder is in that session's scene, isLoading is false and loadError
\* is set.
LoadFailureFallsBack ==
  (lastRun.kind = "loadError" /\ lastRun.sid = cur /\ sess[cur].status = "alive"
     /\ phase = "mounted")
    => /\ FallbackMeshes \subseteq sess[cur].scene
       /\ isLoading = FALSE
       /\ loadError # Null

\* C10 witness: the failure callback of the current session has just run
CurrentLoadFailed ==
  /\ lastRun.kind = "loadError"
  /\ lastRun.sid = cur
  /\ sess[cur].status = "alive"
  /\ phase = "mounted"
  /\ sess[cur].load = "failed"

(***************************************************************************)
(* Pins: the fetch effect, the ref effect and the render loop.             *)
(***************************************************************************)
InitPins ==
  /\ InitViewer
  /\ fileUrl = 0
  /\ modelId \in Models
  /\ ~editMode
  /\ ~onPinPlaced
  /\ size = <<800, 600>>
  /\ probe = NoProbe

PinsNext ==
  \/ Mount
  \/ \E m \in {0} \cup Models : ChangeModelId(m)
  \/ \E m \in Models : \E pr \in PinResponses(m) : \E nr \in NoteResponses(m) :
       FetchResolve(m, pr, nr)
  \/ \E m \in Models : FetchReject(m)
  \/ SyncPinsRef
  \/ \E f \in frames : Tick(f)
  \/ \E url \in {0} \cup Urls : ChangeFileUrl(url)
  \/ Unmount

SpecPins == InitPins /\ [][PinsNext]_vars

SamePins(list, ps) ==
  /\ Len(list) = Len(ps)
  /\ \A i \in 1..Len(list) : list[i].pin = ps[i]

\* C5: in every state the projected list has one entry per pin of
\* the pin list, in order and referring to the same pin.
ProjectedMatchesPins == SamePins(projected, pins)

(***************************************************************************)
(* Pin placement.  editMode and onPinPlaced are fixed for the life of a    *)
(* mount, as at every call site of the viewer.                             *)
(***************************************************************************)
InitPlace ==
  /\ InitViewer
  /\ modelId = 0
  /\ size = <<800, 600>>
  /\ probe = NoProbe

PlaceNext ==
  \/ Mount
  \/ \E url \in {0} \cup Urls : ChangeFileUrl(url)
  \/ \E s \in Sessions : LoadSuccess(s)
  \/ \E s \in Sessions : LoadError(s)
  \/ \E s \in Sessions : HandleClick(s)
  \/ Unmount

SpecPlace == InitPlace /\ [][PlaceNext]_vars

Nearest(hits) == {h \in hits : \A g \in hits : h.distance <= g.distance}

\* C8: a double click calls onPinPlaced at most once, and only in edit mode
\* with a callback and a ray that hits a mesh of the current scene; the call
\* carries the nearest hit's point and its face normal when it has one; a
\* double click that hits nothing makes no call.
PlacementOnlyOnEditHit ==
  lastRun.kind = "dblclick"
    => /\ Len(lastRun.calls) <= 1
       /\ Len(lastRun.calls) = 1
            => /\ editMode /\ onPinPlaced
               /\ \E h \in Nearest(lastRun.hits) :
                    /\ h.object \in MeshesOf(sess[cur].scene)
                    /\ lastRun.calls[1].position = <<h.object, h.distance>>
                    /\ lastRun.calls[1].normal =
                         (IF h.face THEN <<"normal", h.object>> ELSE <<"undefined", "">>)
       /\ lastRun.hits = {} => lastRun.calls = <<>>
       /\ (editMode /\ onPinPlaced /\ lastRun.hits # {}) => Len(lastRun.calls) = 1

\* C8 witness: a double click in edit mode whose ray crossed two meshes placed a pin
PlacedOnNearerOfTwo ==
  /\ lastRun.kind = "dblclick"
  /\ Cardinality(lastRun.hits) = 2
  /\ Len(lastRun.calls) = 1

(***************************************************************************)
(* Camera operations.                                                      *)
(***************************************************************************)
InitCamera ==
  /\ InitViewer
  /\ modelId = 0
  /\ ~editMode
  /\ ~onPinPlaced
  /\ size = <<800, 600>>
  /\ probe = NoProbe

CameraNext ==
  \/ Mount
  \/ \E s \in Sessions : LoadSuccess(s)
  \/ \E f \in frames : Tick(f)
  \/ ZoomIn
  \/ ZoomOut
  \/ Orbit
  \/ Pan
  \/ ResetCamera

SpecCamera == InitCamera /\ [][CameraNext]_vars

\* C9: right after resetCamera the camera is exactly at the default
\* position (3,2,4) and the controls target exactly at the origin.
ResetRestoresDefault ==
  lastRun.kind = "resetCamera"
    => /\ sess[cur].camera.position = DefaultPosition
       /\ sess[cur].controls.target = Origin

(***************************************************************************)
(* Projection.                                                             *)
(***************************************************************************)
InitProject ==
  /\ InitViewer
  /\ fileUrl = 0
  /\ modelId = 0
  /\ ~editMode
  /\ ~onPinPlaced
  /\ size = <<800, 600>>
  /\ \E v \in ProbeViews : \E g \in ProbePoints : \E wh \in ProbeRects :
       probe = [camera |-> [view |-> v, aspect |-> wh], pins |-> <<Pin(1, 1, g)>>,
                rect |-> wh, ran |-> FALSE, out |-> <<>>]

ProjectNext ==
  \/ ProbeProject
  \/ \E wh \in ProbeRects : ProbeResize(wh)

SpecProject == InitProject /\ [][ProjectNext]_vars

\* The depth of a point along the camera's look direction, in world units
DepthOf(view, g) == Dot(Sub(g, view.position), view.fwd)

\* In front of the camera, between the near plane and the far plane, within
\* the horizontal and the vertical field of view
InFrustum(camera, g) ==
  LET q == Sub(g, camera.view.position)
      depth == DepthOf(camera.view, g)
  IN /\ 100 * depth >= NearH
     /\ 100 * depth < FarH
     /\ Abs(Dot(q, camera.view.right)) * TanHalfFov[2] * camera.aspect[2]
          <= TanHalfFov[1] * depth * camera.aspect[1]
     /\ Abs(Dot(q, camera.view.up)) * TanHalfFov[2] <= TanHalfFov[1] * depth

\* C6: a pin behind the camera is reported invisible; a pin is invisible
\* whenever its projected depth is >= 1 and visible only when it is < 1.
BehindCameraInvisible ==
  probe.ran =>
    \A i \in 1..Len(probe.out) :
      LET g == probe.pins[i].geometry
          z == project(g, probe.camera).z
      IN /\ DepthOf(probe.camera.view, g) < 0 => ~probe.out[i].visible
         /\ Le(NumOf(1), z) => ~probe.out[i].visible
         /\ probe.out[i].visible => Lt(z, NumOf(1))

\* C6 witness: a pin behind the camera has been projected
ProjectedBehindCamera ==
  /\ probe.ran
  /\ Len(probe.out) = 1
  /\ DepthOf(probe.camera.view, probe.pins[1].geometry) < 0

\* C7: a pin in front of the camera inside the frustum is reported visible,
\* at x = (ndc_x*0.5+0.5)*width and y = (-ndc_y*0.5+0.5)*height, both within
\* the surface.
InFrustumOnScreen ==
  probe.ran =>
    \A i \in 1..Len(probe.out) :
      LET g == probe.pins[i].geometry
          ndc == project(g, probe.camera)
          e == probe.out[i]
      IN InFrustum(probe.camera, g)
           => /\ e.visible
              /\ e.x = Num((ndc.x[1] + ndc.x[2]) * probe.rect[1], 2 * ndc.x[2])
              /\ e.y = Num((ndc.y[2] - ndc.y[1]) * probe.rect[2], 2 * ndc.y[2])
              /\ Le(NumOf(0), e.x) /\ Le(e.x, NumOf(probe.rect[1]))
              /\ Le(NumOf(0), e.y) /\ Le(e.y, NumOf(probe.rect[2]))

\* C7 witness: a pin inside the frustum and off the optical axis has been projected
ProjectedOffAxisInFrustum ==
  /\ probe.ran
  /\ Len(probe.out) = 1
  /\ InFrustum(probe.camera, probe.pins[1].geometry)
  /\ probe.out[1].x # Num(probe.rect[1], 2)
  /\ probe.out[1].y # Num(probe.rect[2], 2)

(***************************************************************************)
(* Resizing of the host, down to an empty box and back.                    *)
(***************************************************************************)
\* Sizes the ResizeObserver can report: the positive ones and empty boxes
HostSizes == Sizes \cup {<<0, 0>>, <<0, 300>>}

ResizeNext ==
  \/ Mount
  \/ \E s \in Sessions : \E wh \in HostSizes : HandleResize(s, wh)
  \/ \E f \in frames : Tick(f)
  \/ \E s \in Sessions : LoadSuccess(s)
  \/ Unmount

SpecResize == InitCamera /\ [][ResizeNext]_vars

IsEmptyBox(wh) == wh[1] = 0 \/ wh[2] = 0

\* C11: no render tick runs while the host has zero width or height, and no
\* camera's aspect ratio is ever computed from a zero dimension.
EmptyHostSkipsTick ==
  /\ lastRun.kind = "tick" => ~IsEmptyBox(size)
  /\ \A s \in Sessions : sess[s].status = "alive" => ~IsEmptyBox(sess[s].camera.aspect)

(***************************************************************************)
(* Malformed pin records.                                                  *)
(***************************************************************************)
WellFormed(list) == {i \in 1..Len(list) : list[i].geometry # NoGeometry}

\* C12: a render tick raises no error, and after it every pin of the list
\* that has a geometry is projected while no pin without geometry is.
MalformedPinSkipped ==
  (lastRun.kind = "tick" /\ phase = "mounted" /\ cur # 0)
    => /\ ~lastRun.threw
       /\ \A i \in WellFormed(pinsRef) :
            \E j \in 1..Len(projected) : projected[j].pin = pinsRef[i]
       /\ \A j \in 1..Len(projected) : projected[j].pin.geometry # NoGeometry

(***************************************************************************)
(* The fetch of pins and notes.                                            *)
(***************************************************************************)
\* C13: right after the fetch of the current model's pins and notes has
\* failed, the viewer holds no pin and no note.
FetchFailureShowsNothing ==
  (lastRun.kind = "fetchReject" /\ lastRun.model = modelId /\ phase = "mounted")
    => pins = <<>> /\ notes = <<>>

(***************************************************************************)
(* The fetch of pins and notes racing with the asset load of one session.  *)
(***************************************************************************)
InitRace ==
  /\ InitViewer
  /\ fileUrl \in Urls
  /\ modelId \in Models
  /\ ~editMode
  /\ ~onPinPlaced
  /\ size = <<800, 600>>
  /\ probe = NoProbe

RaceNext ==
  \/ Mount
  \/ \E s \in Sessions : LoadSuccess(s)
  \/ \E s \in Sessions : LoadError(s)
  \/ \E m \in Models : \E pr \in PinResponses(m) : \E nr \in NoteResponses(m) :
       FetchResolve(m, pr, nr)
  \/ \E m \in Models : FetchReject(m)
  \/ SyncPinsRef
  \/ \E f \in frames : Tick(f)

SpecRace == InitRace /\ [][RaceNext]_vars

\* C14: the fetch completion stores the response's pins and notes and leaves
\* the session and the load state as they are; the load completion puts the
\* model into the scene and clears the loading flag and leaves pins, notes
\* and the pending fetch as they are; so both orders end in the same state.
FetchAndLoadCommute ==
  /\ []((lastRun.kind = "fetchResolve" /\ phase = "mounted")
          => /\ pins = OrEmpty(lastRun.pinsRes)
             /\ notes = OrEmpty(lastRun.notesRes))
  /\ []((cur # 0 /\ phase = "mounted")
          => (sess[cur].load = "loaded" => "gltfScene" \in sess[cur].scene /\ ~isLoading))
  /\ [][/\ lastRun'.kind \in {"fetchResolve", "fetchReject"}
             => UNCHANGED <<sessVars, loadVars>>
        /\ lastRun'.kind \in {"loadSuccess", "loadError"}
             => UNCHANGED <<pins, notes, fetches, modelId>>]_vars

\* C14 witness: the fetch has resolved with pins after the load had completed
FetchResolvedAfterLoad ==
  /\ lastRun.kind = "fetchResolve"
  /\ cur # 0
  /\ sess[cur].load = "loaded"
  /\ ~isLoading
  /\ Len(pins) = 2

(***************************************************************************)
(* The loader.                                                             *)
(***************************************************************************)
Built(s) == sess[s].status # "none"

\* C15: a session hands its fileUrl to the loader exactly when it has one,
\* and a load that has completed never completes or starts again; a session
\* without fileUrl has the placeholder in its scene and, while it is the
\* current one, the loading flag is false though no load callback ran for it.
LoaderAtMostOnce ==
  /\ [](\A s \in Sessions : Built(s) =>
          /\ sess[s].url = 0 <=> sess[s].load = "none"
          /\ sess[s].url = 0 => FallbackMeshes \subseteq sess[s].scene)
  /\ []((cur # 0 /\ phase = "mounted" /\ sess[cur].url = 0) => ~isLoading)
  /\ [][\A s \in Sessions :
          /\ sess[s].load \in {"loaded", "failed"} => sess'[s].load = sess[s].load
          /\ (Built(s) /\ sess[s].load = "none") => sess'[s].load = "none"]_vars

\* C15 witness: a session without fileUrl has just been built after one with a fileUrl
BuiltWithoutUrl ==
  /\ lastRun.kind = "build"
  /\ phase = "mounted"
  /\ sess[cur].url = 0
  /\ sess[cur].load = "none"
  /\ ~isLoading

(***************************************************************************)
(* Framing of the loaded model.                                            *)
(***************************************************************************)
\* The centre of the model's bounding box once the root has model.scale and
\* model.position
FramedCenter(s) ==
  LET box == Asset(sess[s].url)
  IN [i \in 1..3 |-> Add(sess[s].model.position[i],
                         Mul(sess[s].model.scale, NumOf(box.center[i])))]

\* C16: after a successful load the model's scale is 3 / (largest dimension
\* of its bounding box), the largest rendered dimension is 3 and the centre
\* of the bounding box is at the origin.
LoadedModelFramed ==
  \A s \in Sessions :
    sess[s].load = "loaded" =>
      LET maxDim == Max3(Asset(sess[s].url).size)
      IN /\ sess[s].model.scale = Num(3, maxDim)
         /\ Mul(sess[s].model.scale, NumOf(maxDim)) = NumOf(3)
         /\ FramedCenter(s) = [i \in 1..3 |-> NumOf(0)]

(***************************************************************************)
(* The model root of the current session.                                  *)
(***************************************************************************)
HasAsset(scene) == "gltfScene" \in scene
HasPlaceholder(scene) == FallbackMeshes \cap scene # {}

\* C17: whenever the loading flag of a mounted viewer is false, the scene of
\* its current session holds either the loaded asset or the whole
\* placeholder, not both and not neither.
OneModelRootWhenLoaded ==
  (phase = "mounted" /\ cur # 0 /\ ~isLoading)
    => /\ HasAsset(sess[cur].scene) # HasPlaceholder(sess[cur].scene)
       /\ HasPlaceholder(sess[cur].scene) => FallbackMeshes \subseteq sess[cur].scene

(***************************************************************************)
(* Responses of earlier fetches.                                           *)
(***************************************************************************)
OfModel(list, m) == \A i \in 1..Len(list) : list[i].model_id = m

\* C18: the pins and the notes held by a mounted viewer are those of the
\* current modelId, and a response to the fetch of another modelId leaves
\* both lists as they are.
ListsBelongToCurrentModel ==
  /\ [](phase = "mounted" => OfModel(pins, modelId) /\ OfModel(notes, modelId))
  /\ [][(lastRun'.kind = "fetchResolve" /\ lastRun'.model # modelId')
          => pins' = pins /\ notes' = notes]_vars

(***************************************************************************)
(* The content tree of the selected course.                                *)
(***************************************************************************)
CourseTreeNext ==
  \/ MountHook
  \/ \E i \in {0} \cup Institutions : ChangeInstitution(i)
  \/ \E r \in coursesReqs : \E items \in CourseResponses(r.inst) : CoursesResolve(r, items)
  \/ \E r \in coursesReqs : CoursesReject(r)
  \/ \E c \in Courses : SelectCourse(c)
  \/ \E b \in Builds : BuildAdvance(b)
  \/ \E b \in Builds : BuildFail(b)
  \/ UnmountHook

\* The hook's page shows no viewer
InitCourseTree ==
  /\ InitViewer
  /\ fileUrl = 0
  /\ modelId = 0
  /\ ~editMode
  /\ ~onPinPlaced
  /\ size = <<800, 600>>
  /\ probe = NoProbe

SpecCourseTree == InitCourseTree /\ [][CourseTreeNext]_vars

CourseTreeFairness ==
  /\ WF_vars(\E b \in Builds : BuildAdvance(b) \/ BuildFail(b))
  /\ WF_vars(\E r \in coursesReqs :
               CoursesReject(r) \/ \E items \in CourseResponses(r.inst) : CoursesResolve(r, items))

SpecCourseTreeLive == InitCourseTree /\ [][CourseTreeNext]_vars /\ CourseTreeFairness

\* A build of the current selection is in flight: pending and not aborted
LiveBuild == \E b \in Builds : builds[b].status = "pending" /\ ~builds[b].aborted

\* C20: treeLoading of a mounted hook does not stay true forever without a
\* pending, non-aborted build: again and again it is false or a build of
\* the current selection is in flight.
TreeLoadingSettles ==
  []<>(~treeLoading \/ LiveBuild \/ hookPhase = "unmounted")

(***************************************************************************)
(* QuizView with its QuizSelection, QuizSession and QuizResults.           *)
(***************************************************************************)
\* Quizzes started, answered question by question, finished, restarted and left
QuizNext ==
  \/ \E t \in Topics : handleTopicClick(t)
  \/ \E r \in Starts : TopicLoaded(r)
  \/ \E r \in Starts : TopicFailed(r)
  \/ \E r \in Starts : \E ok \in BOOLEAN : CreateSettle(r, ok)
  \/ goBackFromSession
  \/ handleRestart
  \/ backToSelection
  \/ \E opt \in {"a", "true"} : SelectOption(opt)
  \/ ChangeText("A")
  \/ submitAnswer
  \/ goNext

SpecQuiz == InitCourseTree /\ [][QuizNext]_vars

\* A step in which a createStudySession call settles and its id, or null
\* when it failed, becomes the session id
EnteredAfterSettle ==
  \E r \in Starts :
    /\ starts[r].stage = "creating"
    /\ starts'[r].stage = "done"
    /\ sessionId' = IF studySessions'[r].created THEN r ELSE 0
    /\ studySessions'[r].created \/ studySessions' = studySessions

\* C21: phase changes only from selection to session, from session to
\* results or selection, and from results to session or selection; it never
\* goes from selection to results, and it becomes session only in the step
\* in which a study-session creation settles, with the created id as
\* sessionId, or null when the creation failed.
PhaseFollowsEdges ==
  [][quizPhase' # quizPhase =>
       \/ quizPhase = "selection" /\ quizPhase' = "session" /\ EnteredAfterSettle
       \/ quizPhase = "session" /\ quizPhase' = "results"
       \/ quizPhase = "session" /\ quizPhase' = "selection"
       \/ quizPhase = "results" /\ quizPhase' = "session" /\ EnteredAfterSettle
       \/ quizPhase = "results" /\ quizPhase' = "selection"]_vars

\* A session entered from results after a failed creation, without id
RestartedWithoutSession ==
  /\ quizPhase = "session"
  /\ sessionId = 0
  /\ \E r \in Starts : starts[r].stage = "done" /\ ~studySessions[r].created
  /\ \E s \in Starts : studySessions[s].closes = 1

\* C22: whenever phase is results, lastResults is non-null, also while the
\* session creation of a restart is pending.
ResultsHaveLastResults == quizPhase = "results" => lastResults # NoResults

\* C23: no study session is closed twice, and in a step in which QuizView
\* returns to selection or has another study session created, every study
\* session created before has been closed once.
SessionsClosedOnce ==
  /\ [](\A s \in Starts : studySessions[s].closes <= 1)
  /\ [][((quizPhase # "selection" /\ quizPhase' = "selection")
          \/ (\E s \in Starts : ~studySessions[s].created /\ studySessions'[s].created))
         => \A s \in Starts : studySessions[s].created => studySessions'[s].closes = 1]_vars

(***************************************************************************)
(* QuizSession in a quiz that has just started, with every way to move     *)
(* between its questions.                                                  *)
(***************************************************************************)
\* QuizView right after the first createSessionAndStart set phase to
\* session, with or without a second one, of a second topic click, pending
InitQuizSession ==
  /\ InitNoViewer
  /\ InitAuth
  /\ quizPhase = "session"
  /\ \E t \in Topics : questions = Quiz(t) /\ selectedTopicName = t
  /\ sessionId \in {0, 1}
  /\ lastResults = NoResults
  /\ loadingTopicId = 0
  /\ \E second \in {NoStart} \cup {[stage |-> "creating", topic |-> t, qs |-> Quiz(t),
                                     live |-> FALSE] : t \in Topics} :
       /\ starts = [r \in Starts |-> IF r = 1 THEN DoneStart
                                     ELSE IF r = 2 THEN second ELSE NoStart]
       /\ nextStart = IF second = NoStart THEN 2 ELSE 3
       /\ second # NoStart => selectedTopicName = second.topic
  /\ studySessions = [s \in Starts |->
                        IF s = 1 /\ sessionId = 1 THEN [created |-> TRUE, closes |-> 0]
                        ELSE NoStudySession]
  /\ currentIdx = 0
  /\ answers = <<>>
  /\ selectedOption = NoOption
  /\ textAnswer = ""
  /\ submitted = FALSE
  /\ attempts = <<>>

QuizSessionNext ==
  \/ \E opt \in {"a", "b", "true", "false"} : SelectOption(opt)
  \/ \E txt \in Texts : ChangeText(txt)
  \/ submitAnswer
  \/ goNext
  \/ goPrev
  \/ \E idx \in 0..(Len(questions) - 1) : onJump(idx)
  \/ goBackFromSession
  \/ \E r \in Starts : \E ok \in BOOLEAN : CreateSettle(r, ok)

SpecQuizSession == InitQuizSession /\ [][QuizSessionNext]_vars

\* C24: while a QuizSession stays mounted, a recorded answer answers[i]
\* never changes or disappears, whatever is selected, typed, submitted or
\* navigated to, and exactly one attempt has been sent for question i.
AnswerWrittenOnce ==
  [][(quizPhase = "session" /\ quizPhase' = "session")
       => \A i \in DOMAIN answers :
            /\ i \in DOMAIN answers'
            /\ answers'[i] = answers[i]
            /\ attempts[i] = 1
            /\ attempts'[i] = 1]_vars

\* Both questions answered, the second first, and the first shown again
AnsweredRevisited ==
  /\ quizPhase = "session"
  /\ DOMAIN answers = {0, 1}
  /\ currentIdx = 0
  /\ submitted
  /\ selectedOption = answers[0].answer
  /\ ~answers[0].isCorrect
  /\ answers[1].isCorrect

\* C25: onComplete is invoked only when every question has a recorded
\* answer: the results have one answer per question, total is the number of
\* questions, and the correct and the incorrect answers add up to total.
CompleteOnlyWhenAllAnswered ==
  [][(quizPhase = "session" /\ quizPhase' = "results")
       => /\ DOMAIN answers = 0..(Len(questions) - 1)
          /\ Len(lastResults'.answers) = Len(questions)
          /\ lastResults'.total = Len(questions)
          /\ lastResults'.correct
               + Cardinality({k \in DOMAIN lastResults'.answers :
                                ~lastResults'.answers[k].isCorrect})
             = lastResults'.total]_vars

(***************************************************************************)
(* AuthProvider: session restore, sign-in, sign-up and sign-out.           *)
(***************************************************************************)
\* AuthProvider at its first render, over what an earlier visit stored
InitAuthProvider ==
  /\ InitNoViewer
  /\ InitQuiz
  /\ authPhase = "initial"
  /\ status = "loading"
  /\ user = 0
  /\ memberships = <<>>
  /\ activeMembership = 0
  /\ accessToken = 0
  /\ stored \in StoredAuth
  /\ authReqs = {}

AuthNext ==
  \/ MountAuth
  \/ \E r \in authReqs : \E data \in SessionData : RestoreConfirmed(r, data)
  \/ \E r \in authReqs : RestoreRejected(r)
  \/ \E r \in authReqs : RestoreUnreachable(r)
  \/ \E r \in authReqs : RestoreCancelled(r)
  \/ \E kind \in {"signIn", "signUp", "signOut"} : SignCall(kind)
  \/ \E r \in authReqs : \E data \in SessionData : SignedIn(r, data)
  \/ \E r \in authReqs : SignFailed(r)
  \/ \E r \in authReqs : SignedOut(r)
  \/ \E m \in {1, 2} : setActiveMembership(m)
  \/ UnmountAuth

SpecAuth == InitAuthProvider /\ [][AuthNext]_vars

\* The restore call of this mount, if there is one
RestoreCall == CHOOSE r \in authReqs : r.kind = "restore"
Restoring == \E r \in authReqs : r.kind = "restore" /\ r.outcome = "pending"

AuthStateConsistent ==
  /\ status = "unauthenticated" => user = 0 /\ accessToken = 0 /\ memberships = <<>>
  /\ status = "authenticated" => user # 0
====
